---- MODULE Spec2Model ----
(***************************************************************************)
(* Model of extract.py: the METAR (station) pipeline and the ERA5 (grid)   *)
(* pipeline that main() runs one after the other.                          *)
(*                                                                         *)
(* Numbers.  Coordinate values are integers counted in thousandths of the  *)
(* axis unit (milli-hours, milli-hPa, milli-degrees).  np.allclose(x, y)   *)
(* is |x - y| <= atol + rtol * |y| with numpy's defaults atol = 1e-8 and   *)
(* rtol = 1e-5; atol / rtol is exactly one thousandth, so in these units   *)
(* the test is  RtolInv * |X - Y| <= AtolUnits + |Y|  with no rounding.    *)
(* Temperatures of cubes are hundredths of a degree, station temperatures  *)
(* tenths of a degree.  Geopotential is counted in 1/20000 m2/s2 and height *)
(* in whole metres, so that dividing by g = 9.80665 = 196133 / 20000 is    *)
(* the integer division by Gravity.                                        *)
(***************************************************************************)
EXTENDS Integers, Sequences, FiniteSets, TLC

VARIABLES metar_source, era_file, pc, err, metar_csv, temp_cube, hum_cube,
          geo_cube, height_cube, other_idx, coord_idx, checked, field_set,
          map_saved, era_csv

vars == <<metar_source, era_file, pc, err, metar_csv, temp_cube, hum_cube,
          geo_cube, height_cube, other_idx, coord_idx, checked, field_set,
          map_saved, era_csv>>

(***************************************************************************)
(* Bounds of the model.                                                    *)
(***************************************************************************)
MaxCells == 6
MaxRows == 1
MaxMatches == 2

(***************************************************************************)
(* Program constants.                                                      *)
(***************************************************************************)
RtolInv == 100000
AtolUnits == 1
Gravity == 196133
KelvinOffset == 27315
MagnusB == 2435

Abs(x) == IF x < 0 THEN -x ELSE x

CoordNames == <<"time", "pressure", "latitude", "longitude">>
Axes == {"time", "pressure", "latitude", "longitude"}
RequiredNames == <<"air_temperature", "relative_humidity", "geopotential">>

NoError == [type |-> "none", raised_by |-> "none"]
Raise(type, fn) == [type |-> type, raised_by |-> fn]

(***************************************************************************)
(* Cubes: a name, units, one coordinate array per axis and a 4-D data      *)
(* array in (time, pressure, latitude, longitude) order.  A 4-D array is   *)
(* its shape and its cells, indexed by tuples counted from 1.              *)
(***************************************************************************)
Shape(coords) == <<Len(coords["time"]), Len(coords["pressure"]),
                   Len(coords["latitude"]), Len(coords["longitude"])>>

IndexSpace(shape) ==
    (1..shape[1]) \X (1..shape[2]) \X (1..shape[3]) \X (1..shape[4])

Size(shape) == shape[1] * shape[2] * shape[3] * shape[4]

NdArray(shape, cells) == [shape |-> shape, cells |-> cells]

NoCube == [name |-> "", units |-> "", coords |-> [a \in Axes |-> <<>>],
           data |-> NdArray(<<0, 0, 0, 0>>, [x \in {} |-> 0])]

(***************************************************************************)
(* The gridded source file.  Axis values follow the download requests      *)
(* (hourly steps, pressure levels 25 hPa apart, a 0.25 degree grid); every *)
(* axis is strictly increasing, as a dimension coordinate is.  The         *)
(* humidity and geopotential messages may sit on an axis that is shifted   *)
(* or one value longer than the temperature's.                             *)
(***************************************************************************)
AxisStart == [a \in Axes |->
    CASE a = "time" -> 469342000
      [] a = "pressure" -> 975000
      [] a = "latitude" -> 46500
      [] a = "longitude" -> 2500]

AxisStep == [a \in Axes |->
    CASE a = "time" -> 1000
      [] a = "pressure" -> 25000
      [] a = "latitude" -> 250
      [] a = "longitude" -> 250]

AxisValues(a, n) == [i \in 1..n |-> AxisStart[a] + (i - 1) * AxisStep[a]]

Deltas == {-4000, 10, 4000}

NoShift == [kind |-> "none", axis |-> "time", delta |-> 0]

Perturbations ==
    {NoShift}
    \cup {[kind |-> "shift", axis |-> a, delta |-> d] : a \in Axes, d \in Deltas}
    \cup {[kind |-> "extend", axis |-> a, delta |-> 0] : a \in Axes}

PerturbAxis(a, n, p) ==
    IF p.kind = "shift" /\ p.axis = a
    THEN [i \in 1..n |-> AxisValues(a, n)[i] + p.delta]
    ELSE IF p.kind = "extend" /\ p.axis = a
    THEN AxisValues(a, n + 1)
    ELSE AxisValues(a, n)

CellCode(idx) == idx[1] * 1000 + idx[2] * 100 + idx[3] * 10 + idx[4]

SourceValue(name, copy, idx) ==
    CASE name = "air_temperature" ->
             28000 + CellCode(idx) + 700 * (copy - 1)
      [] name = "relative_humidity" ->
             CellCode(idx) + 700 * (copy - 1)
      [] name = "geopotential" ->
             Gravity * (CellCode(idx) + 700 * (copy - 1))

SourceUnits(name) ==
    CASE name = "air_temperature" -> "K"
      [] name = "relative_humidity" -> "%"
      [] name = "geopotential" -> "m2 s-2"

SourceCube(name, copy, lens, p) ==
    LET coords == [a \in Axes |-> PerturbAxis(a, lens[a], p)]
    IN [name |-> name, units |-> SourceUnits(name), coords |-> coords,
        data |-> NdArray(Shape(coords),
                         [idx \in IndexSpace(Shape(coords)) |->
                             SourceValue(name, copy, idx)])]

Copies(name, count, lens, p) ==
    [c \in 1..count |-> SourceCube(name, c, lens, p)]

SourceCubes(lens, counts, ph, pg) ==
    Copies("geopotential", counts["geopotential"], lens, pg)
    \o Copies("relative_humidity", counts["relative_humidity"], lens, ph)
    \o Copies("air_temperature", counts["air_temperature"], lens, NoShift)

AxisLens ==
    {lens \in [Axes -> 1..MaxCells] :
        lens["time"] * lens["pressure"] * lens["latitude"] * lens["longitude"]
            <= MaxCells}

NameSet == {"air_temperature", "relative_humidity", "geopotential"}
OneEach == [n \in NameSet |-> 1]

\* One variable is missing or has several messages.
MatchCounts ==
    {[OneEach EXCEPT ![n] = k] : n \in NameSet, k \in (0..MaxMatches) \ {1}}

\* One message off its axis, or the humidity off in time and the
\* geopotential shifted as well.
PerturbationPairs ==
    {pp \in Perturbations \X Perturbations :
        \/ pp[1] = NoShift
        \/ pp[2] = NoShift
        \/ pp[1].kind = "shift" /\ pp[1].axis = "time" /\ pp[2].kind = "shift"}

EraFiles ==
    {[ok |-> FALSE, cubes |-> <<>>]}
    \cup {[ok |-> TRUE, cubes |-> SourceCubes(lens, OneEach, pp[1], pp[2])] :
            lens \in AxisLens, pp \in PerturbationPairs}
    \cup {[ok |-> TRUE, cubes |-> SourceCubes(lens, counts, NoShift, NoShift)] :
            lens \in AxisLens, counts \in MatchCounts}

(***************************************************************************)
(* The station workbook: rows of (Time, Temp, Dew), temperatures in tenths *)
(* of a degree Celsius; -243.5 is the singular point of the formula.       *)
(***************************************************************************)
StationTemps == {-2435, 200}
StationDews == {-2435, 100}

StationRows(n) ==
    {[i \in 1..n |-> [Time |-> i, Temp |-> r[i].Temp, Dew |-> r[i].Dew]] :
        r \in [1..n -> [Temp : StationTemps, Dew : StationDews]]}

MetarSources ==
    {[ok |-> FALSE, rows |-> <<>>]}
    \cup {[ok |-> TRUE, rows |-> rows] :
            rows \in UNION {StationRows(n) : n \in 0..MaxRows}}

(***************************************************************************)
(* numpy and pandas operations the program calls.                          *)
(***************************************************************************)

\* np.allclose element test: |x - y| <= atol + rtol * |y|.
IsClose(x, y) == Abs(x - y) <= (AtolUnits + Abs(y)) \div RtolInv

BroadcastIndex(i, n) == IF n = 1 THEN 1 ELSE i

\* np.allclose broadcasts its arguments: two 1-D arrays are compatible when
\* their lengths are equal or one of them is 1, otherwise numpy raises.
NpAllClose(x, y) ==
    LET m == Len(x)
        n == Len(y)
    IN IF m # n /\ m # 1 /\ n # 1
       THEN [raised |-> TRUE, close |-> FALSE]
       ELSE [raised |-> FALSE,
             close |-> \A i \in 1..(IF m = 1 THEN n ELSE m) :
                          IsClose(x[BroadcastIndex(i, m)],
                                  y[BroadcastIndex(i, n)])]

UnravelWrongStride(n, shape) ==
    <<1 + (n \div (shape[2] * shape[3] * shape[4])),
      1 + ((n \div (shape[3] * shape[4])) % shape[2]),
      1 + ((n \div shape[3]) % shape[3]),
      1 + (n % shape[4])>>

\* Position n (from 0) of a C-ordered flat array to its index tuple.
Unravel(n, shape) ==
    <<1 + (n \div (shape[2] * shape[3] * shape[4])),
      1 + ((n \div (shape[3] * shape[4])) % shape[2]),
      1 + ((n \div shape[4]) % shape[3]),
      1 + (n % shape[4])>>

\* ndarray.flatten(): the cells in C (row-major) order.
Flatten(arr) ==
    [n \in 1..Size(arr.shape) |-> arr.cells[Unravel(n - 1, arr.shape)]]

\* The default indexing='xy' instead: the first two dimensions swapped.
MeshgridXY(t, p, la, lo) ==
    LET shape == <<Len(p), Len(t), Len(la), Len(lo)>>
    IN <<NdArray(shape, [idx \in IndexSpace(shape) |-> t[idx[2]]]),
         NdArray(shape, [idx \in IndexSpace(shape) |-> p[idx[1]]]),
         NdArray(shape, [idx \in IndexSpace(shape) |-> la[idx[3]]]),
         NdArray(shape, [idx \in IndexSpace(shape) |-> lo[idx[4]]])>>

\* np.meshgrid(t, p, la, lo, indexing='ij'): four arrays of shape
\* (len t, len p, len la, len lo), grid m holding the m-th input along axis m.
Meshgrid(t, p, la, lo) ==
    LET shape == <<Len(t), Len(p), Len(la), Len(lo)>>
    IN <<NdArray(shape, [idx \in IndexSpace(shape) |-> t[idx[1]]]),
         NdArray(shape, [idx \in IndexSpace(shape) |-> p[idx[2]]]),
         NdArray(shape, [idx \in IndexSpace(shape) |-> la[idx[3]]]),
         NdArray(shape, [idx \in IndexSpace(shape) |-> lo[idx[4]]])>>

\* cftime num2date on "hours since 1970-01-01": the day and the time of day.
Num2Date(points) ==
    [i \in 1..Len(points) |->
        [day |-> points[i] \div 24000, millihour |-> points[i] % 24000]]

\* A frame cut to its shortest column instead of an error.
DataFrameTruncating(cols) ==
    LET n == CHOOSE k \in {Len(cols[c]) : c \in DOMAIN cols} :
                 \A c \in DOMAIN cols : k <= Len(cols[c])
    IN [raised |-> FALSE,
        rows |-> [i \in 1..n |-> [c \in DOMAIN cols |-> cols[c][i]]]]

\* pd.DataFrame(dict of arrays): one row per position; arrays of different
\* lengths raise ValueError.
DataFrame(cols) ==
    LET n == Len(cols.time)
    IN IF \A c \in DOMAIN cols : Len(cols[c]) = n
       THEN [raised |-> FALSE,
             rows |-> [i \in 1..n |-> [c \in DOMAIN cols |-> cols[c][i]]]]
       ELSE [raised |-> TRUE, rows |-> <<>>]

\* cubes.extract(iris.Constraint(name=...)): the matching cubes, in order.
Extract(cubes, name) == SelectSeq(cubes, LAMBDA c : c.name = name)

\* A selection that falls back on the first cube of the file.
SelectDefaulting(cubes, name) ==
    LET matches == Extract(cubes, name)
    IN IF Len(matches) = 0
       THEN [raised |-> FALSE, cube |-> cubes[1]]
       ELSE [raised |-> FALSE, cube |-> matches[1]]

\* A selection that takes the last match.
SelectLast(cubes, name) ==
    LET matches == Extract(cubes, name)
    IN IF Len(matches) = 0
       THEN [raised |-> TRUE, cube |-> NoCube]
       ELSE [raised |-> FALSE, cube |-> matches[Len(matches)]]

\* cubes.extract(iris.Constraint(name=...))[0]: the first match; subscript
\* 0 of an empty list raises IndexError.
Select(cubes, name) ==
    LET matches == Extract(cubes, name)
    IN IF Len(matches) = 0
       THEN [raised |-> TRUE, cube |-> NoCube]
       ELSE [raised |-> FALSE, cube |-> matches[1]]

\* Cube.convert_units('Celsius'), in hundredths of a degree.
ConvertUnits(cube) ==
    IF cube.units = "K"
    THEN [cube EXCEPT !.units = "Celsius",
                      !.data.cells = [idx \in DOMAIN cube.data.cells |->
                                         cube.data.cells[idx] - KelvinOffset]]
    ELSE cube

\* geo_cube / 9.80665: a new cube on the same coordinates.
DivideByGravity(cube) ==
    [cube EXCEPT !.name = "unknown", !.units = "m",
                 !.data.cells = [idx \in DOMAIN cube.data.cells |->
                                    cube.data.cells[idx] \div Gravity]]

(***************************************************************************)
(* relative_humidity on the float arrays get_metars passes.  A float is a  *)
(* record: a finite value, inf, -inf or nan.  Dividing a float array by    *)
(* zero does not raise: it gives an infinity (or nan) and a warning.       *)
(***************************************************************************)
Fin(v) == [k |-> "fin", v |-> v]
PosInf == [k |-> "inf", v |-> 0]
NegInf == [k |-> "-inf", v |-> 0]
NaN == [k |-> "nan", v |-> 0]

\* (a * x) / (b + x) for one element; a * x is negative at x = -b.  The
\* finite quotient is kept as the temperature it belongs to.
MagnusExponent(x) == IF MagnusB + x = 0 THEN NegInf ELSE Fin(x)

\* np.exp of the exponent, in thousandths: exp(-inf) = 0, and
\* exp(17.67 * 10 / 253.5) = 2.008, exp(17.67 * 20 / 263.5) = 3.824.
NpExp(e) ==
    IF e.k = "-inf" THEN 0
    ELSE CASE e.v = 100 -> 2008
           [] e.v = 200 -> 3824

\* 100 * (x / y) for one element, in hundredths of a percent.
PercentRatio(x, y) ==
    IF y = 0
    THEN IF x = 0 THEN NaN ELSE PosInf
    ELSE Fin((10000 * x) \div y)

relative_humidity(temp_c, dewpoint_c) ==
    LET alpha == [i \in 1..Len(dewpoint_c) |-> MagnusExponent(dewpoint_c[i])]
        beta == [i \in 1..Len(temp_c) |-> MagnusExponent(temp_c[i])]
    IN [i \in 1..Len(temp_c) |-> PercentRatio(NpExp(alpha[i]), NpExp(beta[i]))]

Column(rows, c) == [i \in 1..Len(rows) |-> rows[i][c]]

\* The frame get_metars builds from the workbook.
MetarFrame(rows) ==
    LET temps == Column(rows, "Temp")
        dewpoints == Column(rows, "Dew")
        relative_humidities == relative_humidity(temps, dewpoints)
    IN [i \in 1..Len(rows) |->
           [Time |-> rows[i].Time, Temp |-> temps[i], Dew |-> dewpoints[i],
            RH |-> relative_humidities[i]]]

\* The frame make_df builds from the three cubes.
EraFrame(t_cube, h_cube, z_cube) ==
    LET time == Num2Date(t_cube.coords["time"])
        pressure == t_cube.coords["pressure"]
        lat == t_cube.coords["latitude"]
        lon == t_cube.coords["longitude"]
        grids == Meshgrid(time, pressure, lat, lon)
    IN DataFrame([time |-> Flatten(grids[1]),
                  latitude |-> Flatten(grids[3]),
                  longitude |-> Flatten(grids[4]),
                  pressure |-> Flatten(grids[2]),
                  temperature |-> Flatten(t_cube.data),
                  humidity |-> Flatten(h_cube.data),
                  height |-> Flatten(z_cube.data)])

NotWritten == [written |-> FALSE, rows |-> <<>>]
Written(rows) == [written |-> TRUE, rows |-> rows]

(***************************************************************************)
(* The run of main().                                                      *)
(***************************************************************************)
Init ==
    /\ metar_source \in MetarSources
    /\ era_file \in EraFiles
    /\ pc = "get_metars"
    /\ err = NoError
    /\ metar_csv = NotWritten
    /\ temp_cube = NoCube
    /\ hum_cube = NoCube
    /\ geo_cube = NoCube
    /\ height_cube = NoCube
    /\ other_idx = 1
    /\ coord_idx = 1
    /\ checked = <<>>
    /\ field_set = <<>>
    /\ map_saved = FALSE
    /\ era_csv = NotWritten

Fail(e) == pc' = "failed" /\ err' = e

\* get_metars(): read the workbook, compute the humidity, save the table.
GetMetars ==
    /\ pc = "get_metars"
    /\ IF ~metar_source.ok
       THEN /\ Fail(Raise("OSError", "get_metars"))
            /\ UNCHANGED metar_csv
       ELSE /\ metar_csv' = Written(MetarFrame(metar_source.rows))
            /\ pc' = "get_era5_data"
            /\ UNCHANGED err
    /\ UNCHANGED <<metar_source, era_file, temp_cube, hum_cube, geo_cube,
                   height_cube, other_idx, coord_idx, checked, field_set,
                   map_saved, era_csv>>

\* get_era5_data(), up to the coordinate loop: load, select, convert.
LoadCubes ==
    /\ pc = "get_era5_data"
    /\ LET cubes == era_file.cubes
           temp == Select(cubes, "air_temperature")
           hum == Select(cubes, "relative_humidity")
           geo == Select(cubes, "geopotential")
       IN IF ~era_file.ok
          THEN /\ Fail(Raise("OSError", "get_era5_data"))
               /\ UNCHANGED <<temp_cube, hum_cube, geo_cube, height_cube>>
          ELSE IF temp.raised \/ hum.raised \/ geo.raised
          THEN /\ Fail(Raise("IndexError", "get_era5_data"))
               /\ UNCHANGED <<temp_cube, hum_cube, geo_cube, height_cube>>
          ELSE /\ temp_cube' = ConvertUnits(temp.cube)
               /\ hum_cube' = hum.cube
               /\ geo_cube' = geo.cube
               /\ height_cube' = DivideByGravity(geo.cube)
               /\ pc' = "assert_coord_equal"
               /\ UNCHANGED err
    /\ UNCHANGED <<metar_source, era_file, metar_csv, other_idx, coord_idx,
                   checked, field_set, map_saved, era_csv>>

\* A loop over the humidity cube alone.
OtherCubesHumOnly == <<hum_cube>>

\* The cubes the loop compares with temp_cube, in loop order.
OtherCubes == <<hum_cube, geo_cube>>

\* One pass of the loop body: assert_coord_equal(temp_cube, other_cube, coord).
AssertCoordEqual ==
    /\ pc = "assert_coord_equal"
    /\ LET other_cube == OtherCubes[other_idx]
           coord == CoordNames[coord_idx]
           r == NpAllClose(temp_cube.coords[coord], other_cube.coords[coord])
           passed == ~r.raised /\ r.close
       IN /\ checked' = Append(checked, [other |-> other_cube.name,
                                         coord |-> coord, passed |-> passed])
          /\ IF ~passed
             THEN /\ Fail(Raise("ValueError", "assert_coord_equal"))
                  /\ UNCHANGED <<other_idx, coord_idx, field_set>>
             ELSE IF coord_idx < Len(CoordNames)
             THEN /\ coord_idx' = coord_idx + 1
                  /\ UNCHANGED <<pc, err, other_idx, field_set>>
             ELSE IF other_idx < Len(OtherCubes)
             THEN /\ other_idx' = other_idx + 1
                  /\ coord_idx' = 1
                  /\ UNCHANGED <<pc, err, field_set>>
             ELSE /\ field_set' = <<temp_cube, hum_cube, height_cube>>
                  /\ pc' = "make_map"
                  /\ UNCHANGED <<err, other_idx, coord_idx>>
    /\ UNCHANGED <<metar_source, era_file, metar_csv, temp_cube, hum_cube,
                   geo_cube, height_cube, map_saved, era_csv>>

\* make_map(temp_cube): saves the picture of the grid points.
MakeMap ==
    /\ pc = "make_map"
    /\ map_saved' = TRUE
    /\ pc' = "make_df"
    /\ UNCHANGED <<metar_source, era_file, err, metar_csv, temp_cube, hum_cube,
                   geo_cube, height_cube, other_idx, coord_idx, checked,
                   field_set, era_csv>>

\* make_df(temp_cube, hum_cube, height_cube): build the frame, save it.
MakeDf ==
    /\ pc = "make_df"
    /\ LET era_df == EraFrame(field_set[1], field_set[2], field_set[3])
       IN IF era_df.raised
          THEN /\ Fail(Raise("ValueError", "make_df"))
               /\ UNCHANGED era_csv
          ELSE /\ era_csv' = Written(era_df.rows)
               /\ pc' = "done"
               /\ UNCHANGED err
    /\ UNCHANGED <<metar_source, era_file, metar_csv, temp_cube, hum_cube,
                   geo_cube, height_cube, other_idx, coord_idx, checked,
                   field_set, map_saved>>

Next == GetMetars \/ LoadCubes \/ AssertCoordEqual \/ MakeMap \/ MakeDf

Spec == Init /\ [][Next]_vars

(***************************************************************************)
(* Properties.                                                             *)
(***************************************************************************)
Range(f) == {f[i] : i \in DOMAIN f}

\* get_metars has run: it returned, or it raised.
MetarsRan == pc # "get_metars"

\* get_era5_data has run at least to its selection of the cubes.
LoaderRan == pc \notin {"get_metars", "get_era5_data"} /\ err.raised_by # "get_metars"

\* make_df has been entered or is the next call.
JoinReached == pc \in {"make_df", "done"} \/ err.raised_by = "make_df"

Matches(name) == Len(Extract(era_file.cubes, name))

MissingVariable == era_file.ok /\ \E name \in NameSet : Matches(name) = 0

AmbiguousVariable ==
    /\ era_file.ok
    /\ \A name \in NameSet : Matches(name) >= 1
    /\ \E name \in NameSet : Matches(name) > 1

LexLess(a, b) ==
    \E m \in 1..4 : a[m] < b[m] /\ \A q \in 1..(m - 1) : a[q] = b[q]

\* Place of an index tuple when time is the outermost loop and longitude
\* the innermost.
NestedPosition(idx, shape) ==
    1 + Cardinality({j \in IndexSpace(shape) : LexLess(j, idx)})

CoordTuple(row) == <<row.time, row.pressure, row.latitude, row.longitude>>

\* C1: when make_df saves the table of a field set with axis lengths
\* (T, P, Lat, Lon) it holds exactly T*P*Lat*Lon records, whose (time,
\* pressure, latitude, longitude) tuples are exactly the Cartesian product of
\* the four axes, none of them twice; and make_df saves the table whenever it
\* returns.
C1_RecordsAreTheCartesianProduct ==
    /\ pc = "done" => era_csv.written
    /\ era_csv.written =>
         LET coords == field_set[1].coords
             rows == era_csv.rows
             tuples == {CoordTuple(rows[n]) : n \in 1..Len(rows)}
         IN /\ Len(rows) = Size(Shape(coords))
            /\ tuples = Range(Num2Date(coords["time"]))
                          \X Range(coords["pressure"])
                          \X Range(coords["latitude"])
                          \X Range(coords["longitude"])
            /\ Cardinality(tuples) = Len(rows)

C1_Witness ==
    /\ era_csv.written
    /\ Len(era_csv.rows) = 6
    /\ Len(field_set[1].coords["latitude"]) = 2
    /\ Len(field_set[1].coords["longitude"]) = 3

\* C2: the records are in nested order, time outermost and longitude
\* innermost, and the record of index (i, j, k, l) holds time[i], pressure[j],
\* latitude[k], longitude[l] and the three fields' values at [i, j, k, l].
C2_RecordsPairCoordinatesWithTheirCell ==
    era_csv.written =>
        LET t_cube == field_set[1]
            shape == Shape(t_cube.coords)
        IN \A idx \in IndexSpace(shape) :
              era_csv.rows[NestedPosition(idx, shape)] =
                  [time |-> Num2Date(t_cube.coords["time"])[idx[1]],
                   pressure |-> t_cube.coords["pressure"][idx[2]],
                   latitude |-> t_cube.coords["latitude"][idx[3]],
                   longitude |-> t_cube.coords["longitude"][idx[4]],
                   temperature |-> t_cube.data.cells[idx],
                   humidity |-> field_set[2].data.cells[idx],
                   height |-> field_set[3].data.cells[idx]]

C2_Witness ==
    /\ era_csv.written
    /\ Len(field_set[1].coords["time"]) = 2
    /\ Len(field_set[1].coords["pressure"]) = 3

\* The largest difference between corresponding values of two arrays of
\* one length.
MaxAbsDiff(x, y) ==
    CHOOSE d \in {Abs(x[i] - y[i]) : i \in 1..Len(x)} :
        \A i \in 1..Len(x) : Abs(x[i] - y[i]) <= d

OtherByName(name) == IF name = hum_cube.name THEN hum_cube ELSE geo_cube

SameLength(e) ==
    Len(temp_cube.coords[e.coord]) = Len(OtherByName(e.other).coords[e.coord])

CheckedDiff(e) ==
    MaxAbsDiff(temp_cube.coords[e.coord], OtherByName(e.other).coords[e.coord])

\* C3: assert_coord_equal raises exactly when some pair of corresponding
\* values differs by more than one fixed absolute tolerance, the same for
\* every axis and magnitude: every comparison that passed had a smaller
\* largest difference than every comparison that raised.
C3_OneAbsoluteTolerance ==
    \A m, n \in 1..Len(checked) :
        (/\ SameLength(checked[m])
         /\ SameLength(checked[n])
         /\ checked[m].passed
         /\ ~checked[n].passed)
        => CheckedDiff(checked[m]) < CheckedDiff(checked[n])

Passes(r) == ~r.raised /\ r.close

\* C4: in every field set the loader returns, every pair of the three fields
\* (humidity and height included) has, on each axis, coordinate values that
\* the validator accepts as equal.
C4_EveryPairCoRegistered ==
    field_set # <<>> =>
        \A a, b \in 1..3 : \A coord \in Axes :
            Passes(NpAllClose(field_set[a].coords[coord],
                              field_set[b].coords[coord]))

\* C5: when a required variable is absent from the source, the loader
\* raises at the selection, returns no field set, and no grid record is
\* built or saved.
C5_MissingVariableFailsBeforeRecords ==
    MissingVariable =>
        /\ field_set = <<>>
        /\ ~era_csv.written
        /\ LoaderRan =>
             /\ pc = "failed"
             /\ err = Raise("IndexError", "get_era5_data")
             /\ checked = <<>>

C5_Witness ==
    /\ MissingVariable
    /\ Matches("geopotential") = 0
    /\ LoaderRan
    /\ metar_csv.written

\* C6 as stated: when more than one field matches a required name, the
\* loader fails and returns no field set.
C6_AmbiguousVariableFails ==
    (AmbiguousVariable /\ LoaderRan) =>
        /\ pc = "failed"
        /\ err.raised_by = "get_era5_data"
        /\ field_set = <<>>

FirstIndex(name) ==
    CHOOSE i \in 1..Len(era_file.cubes) :
        /\ era_file.cubes[i].name = name
        /\ \A j \in 1..(i - 1) : era_file.cubes[j].name # name

\* C6 amended: several fields matching a required name are no error; the
\* loader takes the first match in source order for each variable, and its
\* selection fails only when a variable has no match.
C6_FirstMatchIsSelected ==
    (era_file.ok /\ LoaderRan) =>
        IF \E name \in NameSet : Matches(name) = 0
        THEN err = Raise("IndexError", "get_era5_data")
        ELSE /\ err.raised_by # "get_era5_data"
             /\ hum_cube = era_file.cubes[FirstIndex("relative_humidity")]
             /\ geo_cube = era_file.cubes[FirstIndex("geopotential")]
             /\ temp_cube =
                    ConvertUnits(era_file.cubes[FirstIndex("air_temperature")])

C6_Witness ==
    /\ AmbiguousVariable
    /\ Matches("relative_humidity") = 2
    /\ pc = "done"
    /\ era_csv.written

AllChecksPassed ==
    /\ Len(checked) = 8
    /\ \A other \in {"relative_humidity", "geopotential"} : \A coord \in Axes :
          Cardinality({n \in 1..Len(checked) :
                          /\ checked[n].other = other
                          /\ checked[n].coord = coord
                          /\ checked[n].passed}) = 1

\* C7: a pipeline whose step raised has written nothing to its table, and a
\* table is written only from a complete result: the grid table after all
\* checks passed, one record per cell of every field; the station table one
\* record per observation.
C7_NoPartialOutput ==
    /\ err.raised_by = "get_metars" => ~metar_csv.written
    /\ err.raised_by \in {"get_era5_data", "assert_coord_equal", "make_df"}
         => ~era_csv.written
    /\ pc = "failed" => err # NoError
    /\ era_csv.written =>
         /\ err = NoError
         /\ field_set # <<>>
         /\ AllChecksPassed
         /\ \A f \in 1..3 :
               Len(era_csv.rows) = Size(field_set[f].data.shape)
    /\ metar_csv.written =>
         /\ metar_source.ok
         /\ Len(metar_csv.rows) = Len(metar_source.rows)

C7_Witness ==
    /\ pc = "failed"
    /\ err = Raise("ValueError", "make_df")
    /\ AllChecksPassed
    /\ ~era_csv.written

Singular(rows) ==
    \E i \in 1..Len(rows) :
        MagnusB + rows[i].Temp = 0 \/ MagnusB + rows[i].Dew = 0

\* C8: relative_humidity raises exactly when an element of its input is at
\* the singular point, so that get_metars then saves no table; for any other
\* input it returns and the table is saved.
C8_SingularPointRaises ==
    (metar_source.ok /\ MetarsRan) =>
        IF Singular(metar_source.rows)
        THEN err.raised_by = "get_metars" /\ ~metar_csv.written
        ELSE err.raised_by # "get_metars" /\ metar_csv.written

\* C9: make_df is entered only after assert_coord_equal was called, and
\* passed, for each of the four axes of the humidity cube and of the
\* geopotential cube against the temperature cube: eight calls, each pair of
\* cube and axis once.
C9_JoinOnlyAfterEightChecks ==
    (JoinReached \/ era_csv.written) => AllChecksPassed

C9_Witness ==
    /\ pc = "make_df"
    /\ Len(checked) = 8
    /\ ~era_csv.written

\* What the grid pipeline makes of a source, by itself.
GridOutcome(file) ==
    LET temp == Select(file.cubes, "air_temperature")
        hum == Select(file.cubes, "relative_humidity")
        geo == Select(file.cubes, "geopotential")
    IN IF ~file.ok \/ temp.raised \/ hum.raised \/ geo.raised
       THEN NotWritten
       ELSE IF \E other \in {hum.cube, geo.cube} : \E coord \in Axes :
                  ~Passes(NpAllClose(temp.cube.coords[coord],
                                     other.coords[coord]))
       THEN NotWritten
       ELSE LET df == EraFrame(ConvertUnits(temp.cube), hum.cube,
                               DivideByGravity(geo.cube))
            IN IF df.raised THEN NotWritten ELSE Written(df.rows)

\* What the station pipeline makes of a workbook, by itself.
StationOutcome(source) ==
    IF source.ok THEN Written(MetarFrame(source.rows)) ELSE NotWritten

\* C10: at the end of a run each table is what its own source determines,
\* whatever the other source is and however the other pipeline ended.
C10_PipelinesIndependent ==
    pc \in {"done", "failed"} =>
        /\ era_csv = GridOutcome(era_file)
        /\ metar_csv = StationOutcome(metar_source)

====
